---- MODULE Spec2Model ----
(***************************************************************************)
(* A model of the Picket node client (picketapi/picket-node).              *)
(*                                                                         *)
(* The repository holds several revisions of the same client class:       *)
(*   "0.0.10"  src/index.ts lines 1-394      (the current client)          *)
(*   "0.0.5"   src/index.ts lines 396-700                                  *)
(*   "0.0.1"   src/unnamed/part_000 lines 52-274                           *)
(* (src/index.ts lines 702-859 is a still earlier client without any       *)
(* status test; no property below concerns it and it is not modelled.)     *)
(* Every method is an async function: it runs synchronously up to its      *)
(* first await (local validation, request construction, the call of        *)
(* fetch), is resumed when fetch settles (where it calls res.json()), and   *)
(* is resumed once more when res.json() settles (status test, result).     *)
(***************************************************************************)
EXTENDS Integers, Sequences, FiniteSets, TLC

VARIABLES rev, harness, client, calls

vars == <<rev, harness, client, calls>>

----------------------------------------------------------------------------
(* Bounds *)

\* call slots of the sequential caller (Spec, SpecRevisions)
MaxCalls == 1
\* call slots of the concurrent caller (SpecConcurrent)
MaxConcurrent == 2

----------------------------------------------------------------------------
(* JavaScript values. A string is a sequence of text chunks.               *)

Undefined == [t |-> "undefined"]
Str(s) == [t |-> "string", v |-> s]
Arr(s) == [t |-> "array", v |-> s]
Obj(fields) == [t |-> "object", v |-> fields]
Bool(b) == [t |-> "boolean", v |-> b]
Err(msg) == [t |-> "error", v |-> msg]

\* ToBoolean: undefined, "" and false are falsy; arrays and objects
\* (also empty ones) and Error values are truthy.
Truthy(x) ==
  CASE x.t = "undefined" -> FALSE
    [] x.t = "string" -> x.v # <<>>
    [] x.t = "boolean" -> x.v
    [] OTHER -> TRUE

\* a destructuring default (chain = ChainTypes.ETH) applies to undefined only
Default(x, d) == IF x.t = "undefined" THEN d ELSE x

\* ${x} in a template literal
ToText(x) ==
  CASE x.t = "undefined" -> <<"undefined">>
    [] x.t = "string" -> x.v
    [] OTHER -> <<"[object]">>

\* property access on a parsed object; a missing property is undefined
Get(o, name) ==
  IF o.t = "object" /\ \E p \in o.v : p[1] = name
  THEN (CHOOSE p \in o.v : p[1] = name)[2]
  ELSE Undefined

\* JSON.stringify of an object literal: undefined-valued properties are dropped
Stringify(fields) == {p \in fields : p[2].t # "undefined"}

----------------------------------------------------------------------------
(* Constants of the source *)

ETH == Str(<<"ethereum">>)
SOL == Str(<<"solana">>)

Latest == "0.0.10"
Revisions == {"0.0.10", "0.0.5", "0.0.1"}

BASE_API_URL(r) ==
  IF r = "0.0.1" THEN Str(<<"https://www.picketapi.com/api/", "v1">>)
  ELSE Str(<<"https://picketapi.com/api/", "v1">>)

UserAgent(r) == <<"picket-node/", r>>

----------------------------------------------------------------------------
(* Buffer.from(apiKey).toString("base64") *)

\* character codes of the characters the keys of the model are made of
CharCode(ch) ==
  CASE ch = "f" -> 102
    [] ch = "o" -> 111
    [] ch = "b" -> 98
    [] ch = "a" -> 97
    [] ch = "r" -> 114

\* Buffer.from(string): the bytes of the string (UTF-8; the keys are ASCII)
Utf8(s) == [i \in 1..Len(s) |-> CharCode(s[i])]

B64Alphabet ==
  << "A","B","C","D","E","F","G","H","I","J","K","L","M","N","O","P",
     "Q","R","S","T","U","V","W","X","Y","Z","a","b","c","d","e","f",
     "g","h","i","j","k","l","m","n","o","p","q","r","s","t","u","v",
     "w","x","y","z","0","1","2","3","4","5","6","7","8","9","+","/" >>

B64Char(i) == B64Alphabet[i + 1]

RECURSIVE Base64(_)
Base64(b) ==
  IF Len(b) = 0 THEN <<>>
  ELSE IF Len(b) = 1 THEN
    LET n == b[1] * 16
    IN  <<B64Char(n \div 64), B64Char(n % 64), "=", "=">>
  ELSE IF Len(b) = 2 THEN
    LET n == (b[1] * 256 + b[2]) * 4
    IN  <<B64Char(n \div 4096), B64Char((n \div 64) % 64), B64Char(n % 64), "=">>
  ELSE
    LET n == b[1] * 65536 + b[2] * 256 + b[3]
    IN  <<B64Char(n \div 262144), B64Char((n \div 4096) % 64),
          B64Char((n \div 64) % 64), B64Char(n % 64)>>
        \o Base64(SubSeq(b, 4, Len(b)))

----------------------------------------------------------------------------
(* The client: constructor and #defaultHeaders *)

NoClient == [state |-> "none", given |-> Undefined, apiKey |-> Undefined,
             baseURL |-> Undefined, error |-> Undefined]

\* a constructor that stores whatever key it is given
NewPicket_unchecked(r, apiKey) ==
  [state |-> "live", given |-> apiKey, apiKey |-> apiKey,
   baseURL |-> BASE_API_URL(r), error |-> Undefined]

\* new Picket(apiKey)
NewPicket(r, apiKey) ==
  IF ~Truthy(apiKey)
  THEN [state |-> "failed", given |-> apiKey, apiKey |-> Undefined,
        baseURL |-> Undefined, error |-> Err(<<"Missing secret key">>)]
  ELSE [state |-> "live", given |-> apiKey, apiKey |-> apiKey,
        baseURL |-> BASE_API_URL(r), error |-> Undefined]

\* this.#defaultHeaders()
defaultHeaders(r, cl) ==
  { <<"User-Agent", UserAgent(r)>>,
    <<"Content-Type", <<"application/json">>>>,
    <<"Authorization", <<"Basic ">> \o Base64(Utf8(cl.apiKey.v))>> }

\* The headers option a method hands to fetch. Revision 0.0.1 writes
\* { ...this.#defaultHeaders } in nonce, auth and validate: the spread of the
\* arrow function itself, which has no own enumerable properties.
RequestHeaders(r, op, cl) ==
  IF r = "0.0.1" /\ op \in {"nonce", "auth", "validate"}
  THEN {}
  ELSE defaultHeaders(r, cl)

----------------------------------------------------------------------------
(* Arguments of a call: one record for all methods, unused fields undefined *)

NoArgs ==
  [chain |-> Undefined, walletAddress |-> Undefined, signature |-> Undefined,
   requirements |-> Undefined, context |-> Undefined, accessToken |-> Undefined,
   revalidate |-> Undefined, tokenIds |-> Undefined,
   contractAddress |-> Undefined, minTokenBalance |-> Undefined]

Ops(r) ==
  CASE r = "0.0.10" -> {"nonce", "auth", "authz", "validate", "tokenOwnership",
                        "chainInfo", "chains"}
    [] r = "0.0.5" -> {"nonce", "auth", "validate", "tokenOwnership",
                       "chainInfo", "chains"}
    [] r = "0.0.1" -> {"nonce", "auth", "validate", "tokenOwnership"}

----------------------------------------------------------------------------
(* Local validation: the value thrown (or rejected with) before any await,  *)
(* undefined when the method goes on to build its request.                 *)

RequiredMsg(name) == Err(<<name, " parameter is required - see docs for reference.">>)

\* nonce has no check in any revision
nonceCheck(r, a) == Undefined

authCheck(r, a) ==
  IF ~Truthy(a.walletAddress) THEN RequiredMsg("walletAddress")
  ELSE IF ~Truthy(a.signature) THEN RequiredMsg("signature")
  ELSE Undefined

\* authz without the check of the requirements object
authzCheck_tokenOnly(r, a) ==
  IF ~Truthy(a.accessToken) THEN RequiredMsg("accessToken")
  ELSE Undefined

authzCheck(r, a) ==
  IF ~Truthy(a.accessToken) THEN RequiredMsg("accessToken")
  ELSE IF ~Truthy(a.requirements) THEN RequiredMsg("requirements")
  ELSE Undefined

\* return Promise.reject("access token is empty")
validateCheck(r, a) ==
  IF ~Truthy(a.accessToken) THEN Str(<<"access token is empty">>)
  ELSE Undefined

tokenOwnershipCheck(r, a) ==
  LET chain == Default(a.chain, ETH) IN
  IF ~Truthy(a.walletAddress) THEN RequiredMsg("walletAddress")
  ELSE CASE r = "0.0.10" ->
              IF chain = SOL /\ ~Truthy(a.tokenIds)
              THEN Err(<<"tokenIds parameter is required for solana - see docs for reference.">>)
              ELSE IF chain # SOL /\ ~Truthy(a.contractAddress)
              THEN Err(<<"contractAddress parameter is required for EVM chains - see docs for reference.">>)
              ELSE Undefined
         [] r = "0.0.5" ->
              IF chain = ETH /\ ~Truthy(a.contractAddress)
              THEN Err(<<"contractAddress parameter is required for ethereum- see docs for reference.">>)
              ELSE IF chain = SOL /\ ~Truthy(a.tokenIds)
              THEN Err(<<"tokenIds parameter is required for solana - see docs for reference.">>)
              ELSE Undefined
         [] r = "0.0.1" ->
              IF ~Truthy(a.contractAddress) THEN RequiredMsg("contractAddress")
              ELSE Undefined

\* chainInfo and chains have no check
chainInfoCheck(r, a) == Undefined

chainsCheck(r, a) == Undefined

Check(r, op, a) ==
  CASE op = "nonce" -> nonceCheck(r, a)
    [] op = "auth" -> authCheck(r, a)
    [] op = "authz" -> authzCheck(r, a)
    [] op = "validate" -> validateCheck(r, a)
    [] op = "tokenOwnership" -> tokenOwnershipCheck(r, a)
    [] op = "chainInfo" -> chainInfoCheck(r, a)
    [] op = "chains" -> chainsCheck(r, a)

----------------------------------------------------------------------------
(* Request construction: what each method hands to fetch *)

Url(cl, path) == cl.baseURL.v \o path

Request(method, url, headers, body) ==
  [method |-> method, url |-> url, headers |-> headers, body |-> body]

nonceRequest(r, cl, a) ==
  Request("POST", Url(cl, <<"/auth/nonce">>), RequestHeaders(r, "nonce", cl),
    IF r = "0.0.1"
    THEN Stringify({<<"walletAddress", a.walletAddress>>})
    ELSE Stringify({<<"chain", Default(a.chain, ETH)>>,
                    <<"walletAddress", a.walletAddress>>}))

authRequest(r, cl, a) ==
  Request("POST", Url(cl, <<"/auth">>), RequestHeaders(r, "auth", cl),
    CASE r = "0.0.10" ->
           Stringify({<<"chain", Default(a.chain, ETH)>>,
                      <<"walletAddress", a.walletAddress>>,
                      <<"signature", a.signature>>,
                      <<"requirements", a.requirements>>,
                      <<"context", a.context>>})
      [] r = "0.0.5" ->
           Stringify({<<"chain", Default(a.chain, ETH)>>,
                      <<"walletAddress", a.walletAddress>>,
                      <<"signature", a.signature>>,
                      <<"requirements", a.requirements>>})
      [] r = "0.0.1" ->
           Stringify({<<"walletAddress", a.walletAddress>>,
                      <<"signature", a.signature>>,
                      <<"requirements", a.requirements>>}))

authzRequest(r, cl, a) ==
  Request("POST", Url(cl, <<"/authz">>), RequestHeaders(r, "authz", cl),
    Stringify({<<"accessToken", a.accessToken>>,
               <<"requirements", a.requirements>>,
               <<"revalidate", Default(a.revalidate, Bool(FALSE))>>}))

validateRequest(r, cl, a) ==
  Request("POST", Url(cl, <<"/auth/validate">>), RequestHeaders(r, "validate", cl),
    Stringify({<<"accessToken", a.accessToken>>,
               <<"requirements", a.requirements>>}))

tokenOwnershipRequest(r, cl, a) ==
  IF r = "0.0.1"
  THEN Request("POST",
         Url(cl, <<"/wallets/">> \o ToText(a.walletAddress) \o <<"/tokenOwnership">>),
         RequestHeaders(r, "tokenOwnership", cl),
         Stringify({<<"contractAddress", a.contractAddress>>,
                    <<"minTokenBalance", a.minTokenBalance>>}))
  ELSE Request("POST",
         Url(cl, <<"/chains/">> \o ToText(Default(a.chain, ETH)) \o <<"/wallets/">>
                 \o ToText(a.walletAddress) \o <<"/tokenOwnership">>),
         RequestHeaders(r, "tokenOwnership", cl),
         Stringify({<<"contractAddress", a.contractAddress>>,
                    <<"minTokenBalance", a.minTokenBalance>>,
                    <<"tokenIds", a.tokenIds>>}))

\* a GET carries no body
chainInfoRequest(r, cl, a) ==
  Request("GET", Url(cl, <<"/chains/">> \o ToText(a.chain)),
          RequestHeaders(r, "chainInfo", cl), {})

chainsRequest(r, cl, a) ==
  Request("GET", Url(cl, <<"/chains">>), RequestHeaders(r, "chains", cl), {})

BuildRequest(r, op, cl, a) ==
  CASE op = "nonce" -> nonceRequest(r, cl, a)
    [] op = "auth" -> authRequest(r, cl, a)
    [] op = "authz" -> authzRequest(r, cl, a)
    [] op = "validate" -> validateRequest(r, cl, a)
    [] op = "tokenOwnership" -> tokenOwnershipRequest(r, cl, a)
    [] op = "chainInfo" -> chainInfoRequest(r, cl, a)
    [] op = "chains" -> chainsRequest(r, cl, a)

----------------------------------------------------------------------------
(* Response classification and result *)

\* the status test of the earlier revisions in place of the 2xx range
isSuccessfulStatusCode_upTo201(status) == ~(status > 201)

isSuccessfulStatusCode(status) == status >= 200 /\ status < 300

\* the status test of a revision: 0.0.5 and 0.0.1 write  if (res.status > 201)
IsSuccess(r, status) ==
  IF r = "0.0.10" THEN isSuccessfulStatusCode(status)
  ELSE ~(status > 201)

\* chains returning the parsed body itself, as the other methods do
Result_wholeBody(op, data) == data

\* the value a method returns for the parsed body: chains returns data.data
Result(op, data) == IF op = "chains" THEN Get(data, "data") ELSE data

\* a parse that swallows the failure and yields undefined
JsonParse_lenient(body) == [ok |-> TRUE, value |-> body.value]

\* res.json(): the parsed value of a well-formed body, a SyntaxError otherwise
JsonParse(body) ==
  IF body.wf THEN [ok |-> TRUE, value |-> body.value]
  ELSE [ok |-> FALSE, value |-> Err(<<"SyntaxError: Unexpected token in JSON">>)]

----------------------------------------------------------------------------
(* The caller and the transport: the inputs of the model *)

\* keys handed to the constructor: missing, empty, and two proper keys
KeyArgs == {Undefined, Str(<<>>), Str(<<"f", "o">>), Str(<<"f", "o", "o", "b", "a", "r">>)}

Wallet == Str(<<"0xWALLET">>)
Texts(x) == {Undefined, Str(<<>>), x}

EmptyRequirements == Obj({})
SomeRequirements == Obj({<<"contractAddress", Str(<<"0xCONTRACT">>)>>})

\* the arguments each harness draws a call from
ArgSpace(h, op) ==
  IF h = "concurrent"
  THEN CASE op = "nonce" -> {[NoArgs EXCEPT !.walletAddress = Wallet]}
         [] op = "auth" -> {[NoArgs EXCEPT !.walletAddress = Wallet,
                                           !.signature = Str(<<"0xSIG">>)]}
         [] op = "authz" -> {[NoArgs EXCEPT !.accessToken = Str(<<"TOKEN">>),
                                            !.requirements = SomeRequirements]}
         [] op = "validate" -> {[NoArgs EXCEPT !.accessToken = t] :
                                  t \in {Str(<<>>), Str(<<"TOKEN">>)}}
         [] op = "tokenOwnership" ->
              {[NoArgs EXCEPT !.walletAddress = Wallet,
                              !.contractAddress = Str(<<"0xCONTRACT">>)]}
         [] op = "chainInfo" -> {[NoArgs EXCEPT !.chain = ETH]}
         [] op = "chains" -> {NoArgs}
  ELSE CASE op = "nonce" -> {[NoArgs EXCEPT !.walletAddress = w] : w \in Texts(Wallet)}
         [] op = "auth" ->
              {[NoArgs EXCEPT !.walletAddress = w, !.signature = g] :
                 w \in Texts(Wallet), g \in Texts(Str(<<"0xSIG">>))}
         [] op = "authz" ->
              {[NoArgs EXCEPT !.accessToken = t, !.requirements = q] :
                 t \in Texts(Str(<<"TOKEN">>)),
                 q \in {Undefined, EmptyRequirements, SomeRequirements}}
         [] op = "validate" ->
              {[NoArgs EXCEPT !.accessToken = t] : t \in Texts(Str(<<"TOKEN">>))}
         [] op = "tokenOwnership" ->
              {[NoArgs EXCEPT !.chain = ch, !.walletAddress = w,
                              !.tokenIds = ids, !.contractAddress = ca] :
                 ch \in {Undefined, SOL, Str(<<"polygon">>)},
                 w \in Texts(Wallet),
                 ids \in {Undefined, Arr(<<>>), Arr(<<"1">>)},
                 ca \in {Undefined, Str(<<"0xCONTRACT">>)}}
         [] op = "chainInfo" -> {[NoArgs EXCEPT !.chain = ch] : ch \in {Str(<<>>), ETH}}
         [] op = "chains" -> {NoArgs}

\* response bodies: two JSON documents and a text that is not JSON
Payload == Obj({<<"data", Arr(<<"ethereum", "solana">>)>>, <<"nonce", Str(<<"n1">>)>>})
ErrorBody == Obj({<<"code", Str(<<"not_found">>)>>, <<"msg", Str(<<"unknown chain">>)>>})
JsonBody(v) == [wf |-> TRUE, value |-> v]
Malformed == [wf |-> FALSE, value |-> Undefined]

Statuses == {199, 200, 201, 299, 300, 404}

Response(status, body) == [status |-> status, body |-> body]

\* the responses the transport of each harness may answer a request with
Responses(h) ==
  IF h = "concurrent"
  THEN {Response(200, JsonBody(Payload)), Response(404, JsonBody(ErrorBody)),
        Response(299, Malformed)}
  ELSE {Response(st, JsonBody(Payload)) : st \in Statuses}
       \cup {Response(st, b) : st \in {200, 404}, b \in {JsonBody(ErrorBody), Malformed}}

Slots(h) == IF h = "concurrent" THEN 1..MaxConcurrent ELSE 1..MaxCalls

----------------------------------------------------------------------------
(* Calls *)

NoRes == Response(0, Malformed)
Pending == [kind |-> "pending", by |-> "none", value |-> Undefined]
Resolved(v) == [kind |-> "resolved", by |-> "status", value |-> v]
\* by: the place the rejection comes from: "local" (validation), "transport"
\* (fetch rejected), "parse" (res.json() rejected), "status" (status test)
Rejected(by, v) == [kind |-> "rejected", by |-> by, value |-> v]

Idle == [pc |-> "idle", op |-> "none", args |-> NoArgs, reqs |-> <<>>,
         res |-> NoRes, outcome |-> Pending]

\* the synchronous part of a method: validation, then the one call of fetch
Start(r, cl, op, a) ==
  LET e == Check(r, op, a) IN
  IF e.t # "undefined"
  THEN [pc |-> "done", op |-> op, args |-> a, reqs |-> <<>>,
        res |-> NoRes, outcome |-> Rejected("local", e)]
  ELSE [pc |-> "fetch", op |-> op, args |-> a,
        reqs |-> <<BuildRequest(r, op, cl, a)>>,
        res |-> NoRes, outcome |-> Pending]

\* a client that keeps the response in a field shared by its calls: the
\* status tested is the one of a response another call is still parsing
Finish_shared(r, call, data) ==
  LET others == {d \in DOMAIN calls : calls[d].pc = "json" /\ calls[d] # call}
      status == IF others = {} THEN call.res.status
                ELSE calls[CHOOSE d \in others : TRUE].res.status
  IN  IF ~IsSuccess(r, status)
      THEN [call EXCEPT !.pc = "done", !.outcome = Rejected("status", data)]
      ELSE [call EXCEPT !.pc = "done", !.outcome = Resolved(Result(call.op, data))]

\* the part after  const data = await res.json()
Finish(r, call, data) ==
  IF ~IsSuccess(r, call.res.status)
  THEN [call EXCEPT !.pc = "done", !.outcome = Rejected("status", data)]
  ELSE [call EXCEPT !.pc = "done", !.outcome = Resolved(Result(call.op, data))]

\* a method that assigns the url it built to this.baseURL
Invoke_rebasing(op) ==
  /\ client.state = "live"
  /\ op \in Ops(rev)
  /\ \E c \in DOMAIN calls, a \in ArgSpace(harness, op) :
       /\ calls[c].pc = "idle"
       /\ calls' = [calls EXCEPT ![c] = Start(rev, client, op, a)]
       /\ client' = [client EXCEPT !.baseURL = Str(BuildRequest(rev, op, client, a).url)]
  /\ UNCHANGED <<rev, harness>>

Invoke(op) ==
  /\ client.state = "live"
  /\ op \in Ops(rev)
  /\ \E c \in DOMAIN calls, a \in ArgSpace(harness, op) :
       /\ calls[c].pc = "idle"
       /\ calls' = [calls EXCEPT ![c] = Start(rev, client, op, a)]
  /\ UNCHANGED <<rev, harness, client>>

----------------------------------------------------------------------------
(* Actions *)

Construct ==
  /\ client.state # "live"
  /\ \E k \in KeyArgs : client' = NewPicket(rev, k)
  /\ UNCHANGED <<rev, harness, calls>>

Nonce == Invoke("nonce")
Auth == Invoke("auth")
Authz == Invoke("authz")
Validate == Invoke("validate")
TokenOwnership == Invoke("tokenOwnership")
ChainInfo == Invoke("chainInfo")
Chains == Invoke("chains")

\* fetch resolves with a response; the method calls res.json()
FetchResolve ==
  /\ \E c \in DOMAIN calls, rs \in Responses(harness) :
       /\ calls[c].pc = "fetch"
       /\ calls' = [calls EXCEPT ![c].pc = "json", ![c].res = rs]
  /\ UNCHANGED <<rev, harness, client>>

\* a method that sends its request once more when fetch rejects
FetchReject_retry ==
  /\ \E c \in DOMAIN calls :
       /\ calls[c].pc = "fetch"
       /\ IF Len(calls[c].reqs) < 2
          THEN calls' = [calls EXCEPT ![c].reqs = Append(@, @[1])]
          ELSE calls' = [calls EXCEPT ![c].pc = "done",
                  ![c].outcome = Rejected("transport", Err(<<"TypeError: fetch failed">>))]
  /\ UNCHANGED <<rev, harness, client>>

\* fetch rejects (unreachable host): the await throws out of the method
FetchReject ==
  /\ \E c \in DOMAIN calls :
       /\ calls[c].pc = "fetch"
       /\ calls' = [calls EXCEPT ![c].pc = "done",
                      ![c].outcome = Rejected("transport", Err(<<"TypeError: fetch failed">>))]
  /\ UNCHANGED <<rev, harness, client>>

\* res.json() resolves: status test and result
JsonResolve ==
  /\ \E c \in DOMAIN calls :
       /\ calls[c].pc = "json"
       /\ JsonParse(calls[c].res.body).ok
       /\ calls' = [calls EXCEPT ![c] =
                      Finish(rev, calls[c], JsonParse(calls[c].res.body).value)]
  /\ UNCHANGED <<rev, harness, client>>

\* res.json() rejects: the await throws out of the method
JsonReject ==
  /\ \E c \in DOMAIN calls :
       /\ calls[c].pc = "json"
       /\ ~JsonParse(calls[c].res.body).ok
       /\ calls' = [calls EXCEPT ![c].pc = "done",
                      ![c].outcome = Rejected("parse", JsonParse(calls[c].res.body).value)]
  /\ UNCHANGED <<rev, harness, client>>

\* the caller takes the settled promise; the slot is free for the next call
Return ==
  /\ \E c \in DOMAIN calls :
       /\ calls[c].pc = "done"
       /\ calls' = [calls EXCEPT ![c] = Idle]
  /\ UNCHANGED <<rev, harness, client>>

Next ==
  \/ Construct
  \/ Nonce
  \/ Auth
  \/ Authz
  \/ Validate
  \/ TokenOwnership
  \/ ChainInfo
  \/ Chains
  \/ FetchResolve
  \/ FetchReject
  \/ JsonResolve
  \/ JsonReject
  \/ Return

InitWith(revs, h) ==
  /\ rev \in revs
  /\ harness = h
  /\ client = NoClient
  /\ calls = [c \in Slots(h) |-> Idle]

\* the current client, one caller that awaits each call
Init == InitWith({Latest}, "sequential")
Spec == Init /\ [][Next]_vars

\* the current client, calls issued without awaiting the previous one
InitConcurrent == InitWith({Latest}, "concurrent")
SpecConcurrent == InitConcurrent /\ [][Next]_vars

\* every revision of the client in the repository
InitRevisions == InitWith(Revisions, "sequential")
SpecRevisions == InitRevisions /\ [][Next]_vars

----------------------------------------------------------------------------
TypeOK ==
  /\ rev \in Revisions
  /\ client.state \in {"none", "failed", "live"}
  /\ \A c \in DOMAIN calls : calls[c].pc \in {"idle", "fetch", "json", "done"}

----------------------------------------------------------------------------
(* Vocabulary of the properties *)

Started(c) == calls[c].pc # "idle"
Done(c) == calls[c].pc = "done"
Answered(c) == calls[c].res.status # 0
FailedLocally(c) == Done(c) /\ calls[c].outcome.kind = "rejected" /\ calls[c].outcome.by = "local"
Sent(c) == Len(calls[c].reqs)

\* a value that was not given (undefined)
Missing(x) == x.t = "undefined"

\* a value that was not given or is the empty string, list or object
MissingOrEmpty(x) ==
  CASE x.t = "undefined" -> TRUE
    [] x.t = "string" -> x.v = <<>>
    [] x.t = "array" -> x.v = <<>>
    [] x.t = "object" -> x.v = {}
    [] OTHER -> FALSE

\* the chain tokenOwnership resolves to: the chain given, ethereum when omitted
ResolvedChain(c) ==
  IF Missing(calls[c].args.chain) THEN <<"ethereum">> ELSE calls[c].args.chain.v

\* base64 of the keys of the model (RFC 4648, section 10)
Rfc4648(key) ==
  CASE key = <<"f", "o">> -> <<"Z", "m", "8", "=">>
    [] key = <<"f", "o", "o", "b", "a", "r">> -> <<"Z", "m", "9", "v", "Y", "m", "F", "y">>

----------------------------------------------------------------------------
(* C1 *)

----------------------------------------------------------------------------
(* C2 *)

\* the call lacks a wallet address, signature or access token its method requires
LacksRequiredText(c) ==
  LET a == calls[c].args IN
  CASE calls[c].op = "auth" -> MissingOrEmpty(a.walletAddress) \/ MissingOrEmpty(a.signature)
    [] calls[c].op = "authz" -> MissingOrEmpty(a.accessToken)
    [] calls[c].op = "validate" -> MissingOrEmpty(a.accessToken)
    [] calls[c].op = "tokenOwnership" -> MissingOrEmpty(a.walletAddress)
    [] OTHER -> FALSE

\* C2 as stated: for auth, authz, validate and tokenOwnership, a missing or
\* empty wallet address, signature or access token, and for authz a missing
\* or empty requirements object, ends the call in a local validation error
\* with no request sent.
C2_MissingOrEmptyFailsLocally ==
  \A c \in DOMAIN calls :
    ( /\ Started(c)
      /\ \/ LacksRequiredText(c)
         \/ calls[c].op = "authz" /\ MissingOrEmpty(calls[c].args.requirements) )
    => (FailedLocally(c) /\ Sent(c) = 0)

\* C2 amended: as C2, but of the requirements object of authz only its
\* absence counts; an empty requirements object {} passes the check.
C2_MissingFailsLocally ==
  \A c \in DOMAIN calls :
    ( /\ Started(c)
      /\ \/ LacksRequiredText(c)
         \/ calls[c].op = "authz" /\ Missing(calls[c].args.requirements) )
    => (FailedLocally(c) /\ Sent(c) = 0)

C2_Witness ==
  \E c \in DOMAIN calls :
    /\ calls[c].op = "authz" /\ ~MissingOrEmpty(calls[c].args.accessToken)
    /\ Missing(calls[c].args.requirements)
    /\ FailedLocally(c) /\ Sent(c) = 0

----------------------------------------------------------------------------
(* C3 *)

\* C3: a nonce call whose walletAddress is missing or empty is rejected
\* locally and sends no request.
C3_NonceRequiresWallet ==
  \A c \in DOMAIN calls :
    (Started(c) /\ calls[c].op = "nonce" /\ MissingOrEmpty(calls[c].args.walletAddress))
    => (FailedLocally(c) /\ Sent(c) = 0)

----------------------------------------------------------------------------
(* C4 *)

\* C4: tokenOwnership applies the rule of the resolved chain before any
\* request: solana without tokenIds fails locally, any other chain without
\* contractAddress fails locally, and with walletAddress and the field of the
\* chain supplied exactly one request is sent. (Revision 0.0.1 has no chain
\* parameter and is left out.)
C4_ChainRule ==
  \A c \in DOMAIN calls :
    (Started(c) /\ calls[c].op = "tokenOwnership" /\ rev # "0.0.1") =>
      LET a == calls[c].args
          sol == ResolvedChain(c) = <<"solana">>
      IN  /\ (sol /\ Missing(a.tokenIds)) => (FailedLocally(c) /\ Sent(c) = 0)
          /\ (~sol /\ Missing(a.contractAddress)) => (FailedLocally(c) /\ Sent(c) = 0)
          /\ ( /\ ~MissingOrEmpty(a.walletAddress)
               /\ IF sol THEN ~Missing(a.tokenIds) ELSE ~Missing(a.contractAddress) )
             => (~FailedLocally(c) /\ Sent(c) = 1)

----------------------------------------------------------------------------
(* C5 *)

\* C5: constructing a client with an empty or missing key fails at once with
\* the configuration error; a client exists only for a non-empty key, and no
\* call is made and no request sent without a client.
C5_EmptyKeyFails ==
  /\ (client.state # "none" /\ MissingOrEmpty(client.given)) =>
       /\ client.state = "failed"
       /\ client.error = Err(<<"Missing secret key">>)
  /\ (client.state = "live") => ~MissingOrEmpty(client.apiKey)
  /\ (client.state # "live") => \A c \in DOMAIN calls : ~Started(c) /\ Sent(c) = 0

C5_Witness == client.state = "failed" /\ client.given.t = "string"

----------------------------------------------------------------------------
(* C6 *)

\* C6: every request handed to the transport carries the Content-Type header
\* and an Authorization header whose value is "Basic " followed by the base64
\* encoding of the API key the client was constructed with.
C6_AuthorizationHeader ==
  \A c \in DOMAIN calls : \A i \in 1..Sent(c) :
    LET h == calls[c].reqs[i].headers IN
    /\ <<"Authorization", <<"Basic ">> \o Rfc4648(client.apiKey.v)>> \in h
    /\ <<"Content-Type", <<"application/json">>>> \in h
    /\ \A p \in h : p[1] = "Authorization" => p[2] = <<"Basic ">> \o Rfc4648(client.apiKey.v)

----------------------------------------------------------------------------
(* C7 *)

\* C7: a chainInfo call with an empty chain fails locally and sends no
\* request, while chains() goes to the transport without any check.
C7_ChainInfoRequiresChain ==
  \A c \in DOMAIN calls :
    /\ (Started(c) /\ calls[c].op = "chainInfo" /\ MissingOrEmpty(calls[c].args.chain))
       => (FailedLocally(c) /\ Sent(c) = 0)
    /\ (Started(c) /\ calls[c].op = "chains") => (~FailedLocally(c) /\ Sent(c) = 1)

----------------------------------------------------------------------------
(* C8 *)

\* C8: a call that passes local validation has issued exactly one request,
\* whatever response or failure follows (no retry), and a call that fails
\* local validation has issued none.
C8_OneRequestPerCall ==
  \A c \in DOMAIN calls :
    /\ Sent(c) <= 1
    /\ FailedLocally(c) => Sent(c) = 0
    /\ (Started(c) /\ ~FailedLocally(c)) => Sent(c) = 1
    /\ ~Started(c) => Sent(c) = 0

C8_Witness ==
  \E c \in DOMAIN calls :
    Done(c) /\ calls[c].outcome.by = "transport" /\ Sent(c) = 1

----------------------------------------------------------------------------
(* C9 *)

\* C9: whatever the status, a body that is not JSON makes the call reject
\* with the parse failure, and a failure of the transport makes it reject
\* with that failure; such a call never resolves and sends one request only.
C9_TransportFailuresPropagate ==
  \A c \in DOMAIN calls :
    /\ (Done(c) /\ Answered(c) /\ ~calls[c].res.body.wf) =>
         /\ calls[c].outcome.kind = "rejected"
         /\ calls[c].outcome.value = Err(<<"SyntaxError: Unexpected token in JSON">>)
         /\ Sent(c) = 1
    /\ (Done(c) /\ ~Answered(c) /\ Sent(c) > 0) =>
         /\ calls[c].outcome.kind = "rejected"
         /\ calls[c].outcome.value = Err(<<"TypeError: fetch failed">>)
         /\ Sent(c) = 1

C9_Witness ==
  \E c \in DOMAIN calls :
    /\ Done(c) /\ calls[c].res = Response(200, Malformed)
    /\ calls[c].outcome.kind = "rejected"

----------------------------------------------------------------------------
(* C10 *)

\* C10: the outcome of a call is determined by its own arguments and the
\* response to its own request: two calls of one client with the same method,
\* arguments and response have the same outcome, whatever other calls were in
\* flight while each of them ran.
C10_CallsIndependent ==
  \A c, d \in DOMAIN calls :
    ( /\ Done(c) /\ Done(d)
      /\ calls[c].op = calls[d].op
      /\ calls[c].args = calls[d].args
      /\ calls[c].res = calls[d].res )
    => calls[c].outcome = calls[d].outcome

C10_Witness ==
  \E c, d \in DOMAIN calls :
    /\ c # d /\ Done(c) /\ Done(d)
    /\ calls[c].op = calls[d].op /\ calls[c].args = calls[d].args
    /\ calls[c].res = calls[d].res
    /\ calls[c].res = Response(200, JsonBody(Payload))
    /\ calls[c].outcome.kind = "resolved"

----------------------------------------------------------------------------
(* C11 *)

----------------------------------------------------------------------------
(* C12 *)

\* C12: tokenOwnership for the solana chain with tokenIds missing or an empty
\* list fails locally and sends no request.
C12_SolanaNeedsTokenIds ==
  \A c \in DOMAIN calls :
    ( /\ Started(c) /\ calls[c].op = "tokenOwnership"
      /\ ResolvedChain(c) = <<"solana">>
      /\ MissingOrEmpty(calls[c].args.tokenIds) )
    => (FailedLocally(c) /\ Sent(c) = 0)

----------------------------------------------------------------------------
(* C13 *)

\* C13 as stated: the earlier test (failure iff status > 201) is narrower
\* than the corrected test: every status the earlier test classifies as
\* success the corrected test classifies as success too, and the two tests
\* disagree only on 2xx codes.
C13_EarlierTestNarrower ==
  \A c \in DOMAIN calls :
    Answered(c) =>
      LET st == calls[c].res.status
          early == IsSuccess("0.0.5", st)
          now == IsSuccess(Latest, st)
      IN  /\ early => now
          /\ (early # now) => (200 <= st /\ st <= 299)

\* C13 amended: the statement holds for the statuses from 200 on; a status
\* below 200 is a success for the earlier test and a failure for the
\* corrected one. The earlier revisions resolve exactly when status <= 201.
C13_EarlierTestNarrowerFrom200 ==
  \A c \in DOMAIN calls :
    Answered(c) =>
      LET st == calls[c].res.status
          early == IsSuccess("0.0.5", st)
          now == IsSuccess(Latest, st)
      IN  /\ (st >= 200) => ( /\ early => now
                              /\ (early # now) => (200 <= st /\ st <= 299) )
          /\ (st < 200) => (early /\ ~now)
          /\ (Done(c) /\ calls[c].res.body.wf /\ rev # Latest) =>
               ((calls[c].outcome.kind = "resolved") <=> (st <= 201))

C13_Witness ==
  \E c \in DOMAIN calls :
    /\ rev = "0.0.5" /\ Done(c)
    /\ calls[c].res = Response(199, JsonBody(Payload))
    /\ calls[c].outcome.kind = "resolved"

----------------------------------------------------------------------------
(* C14 *)

\* every request in flight or answered starts with the base URL of the client
\* and carries the encoding of the key of the client
RequestsUseClient ==
  \A c \in DOMAIN calls : \A i \in 1..Sent(c) :
    LET q == calls[c].reqs[i] IN
    /\ Len(q.url) >= Len(client.baseURL.v)
    /\ SubSeq(q.url, 1, Len(client.baseURL.v)) = client.baseURL.v
    /\ \A p \in q.headers :
         p[1] = "Authorization" => p[2] = <<"Basic ">> \o Rfc4648(client.apiKey.v)

\* C14: the client is immutable after construction: no call, whether it
\* resolves, rejects or fails local validation, changes the API key or the
\* base URL, and every request of the instance uses that base URL and the
\* encoding of that key.
C14_ClientImmutable ==
  /\ [][client.state = "live" => client' = client]_vars
  /\ [](client.state = "live" =>
          /\ client.baseURL = Str(<<"https://picketapi.com/api/", "v1">>)
          /\ client.apiKey = client.given
          /\ RequestsUseClient)

C14_Witness ==
  \E c \in DOMAIN calls :
    /\ client.state = "live" /\ client.apiKey = Str(<<"f", "o">>)
    /\ Done(c) /\ calls[c].outcome.kind = "resolved"
    /\ calls[c].reqs[1].url = client.baseURL.v \o <<"/auth/nonce">>

====
